---------------------------- MODULE Spec2Model ----------------------------
(***************************************************************************)
(* ExecuTorch native FFI shim (executorch_ffi.cpp): Module lifecycle,      *)
(* forward execution under the per-Module mutex, and the tensor/value      *)
(* marshalling around the engine call.                                     *)
(*                                                                         *)
(* Threads are the callers of the C boundary functions.  Each thread has   *)
(* one call frame; the frame of a finished call stays visible (arguments,  *)
(* out-parameters, returned status) until the thread starts its next call. *)
(* The inference engine is an external collaborator: its results are       *)
(* chosen nondeterministically among the outcomes its API can report.      *)
(***************************************************************************)
EXTENDS Integers, Sequences, FiniteSets, TLC

(***************************************************************************)
(* ETErrorCode (executorch_ffi.h)                                          *)
(***************************************************************************)
ET_OK == 0
ET_INVALID_ARGUMENT == 1
ET_OUT_OF_MEMORY == 2
ET_MODEL_LOAD_FAILED == 3
ET_INFERENCE_FAILED == 4
ET_INVALID_STATE == 5

(***************************************************************************)
(* ETDType (executorch_ffi.h)                                              *)
(***************************************************************************)
ET_DTYPE_FLOAT32 == 0
ET_DTYPE_FLOAT64 == 1
ET_DTYPE_INT64 == 2
ET_DTYPE_INT32 == 3
ET_DTYPE_INT16 == 4
ET_DTYPE_INT8 == 5
ET_DTYPE_UINT8 == 6
ET_DTYPE_BOOL == 7

\* ETBackend
ET_BACKEND_XNNPACK == 0
ET_BACKEND_COREML == 1
ET_BACKEND_MPS == 2
ET_BACKEND_VULKAN == 3
ET_BACKEND_QNN == 4

(***************************************************************************)
(* Bounds of the model.                                                    *)
(***************************************************************************)
\* largest input_count a caller passes to et_module_forward
MaxInputs == 2

\* largest rank and largest data buffer (in bytes) a caller passes to
\* et_tensor_create
MaxRank == 3
MaxBytes == 8

\* largest max_count a caller passes to et_backend_list
MaxCount == 6

\* the two caller threads and the two ETModule objects of the scenarios, the
\* latter in the order the allocator hands them out
Threads == {"t1", "t2"}
Modules == {"A", "B"}
ModuleOrder == <<"A", "B">>

\* the number of a thread, which tags the bytes of its tensors
ThreadTag(t) == IF t = "t1" THEN 1 ELSE 2

NoThread == "none"
NullModule == "null"

(***************************************************************************)
(* Helper functions of the shim.                                           *)
(***************************************************************************)
dtype_size(dtype) ==
    CASE dtype = ET_DTYPE_FLOAT32 -> 4
      [] dtype = ET_DTYPE_FLOAT64 -> 8
      [] dtype = ET_DTYPE_INT64 -> 8
      [] dtype = ET_DTYPE_INT32 -> 4
      [] dtype = ET_DTYPE_INT16 -> 2
      [] dtype = ET_DTYPE_INT8 -> 1
      [] dtype = ET_DTYPE_UINT8 -> 1
      [] dtype = ET_DTYPE_BOOL -> 1
      [] OTHER -> 0

to_scalar_type(dtype) ==
    CASE dtype = ET_DTYPE_FLOAT32 -> "Float"
      [] dtype = ET_DTYPE_FLOAT64 -> "Double"
      [] dtype = ET_DTYPE_INT64 -> "Long"
      [] dtype = ET_DTYPE_INT32 -> "Int"
      [] dtype = ET_DTYPE_INT16 -> "Short"
      [] dtype = ET_DTYPE_INT8 -> "Char"
      [] dtype = ET_DTYPE_UINT8 -> "Byte"
      [] dtype = ET_DTYPE_BOOL -> "Bool"
      [] OTHER -> "Float"

\* variant: the two one-byte integer types are not told apart
from_scalar_type_unsigned(scalar_type) ==
    CASE scalar_type = "Float" -> ET_DTYPE_FLOAT32
      [] scalar_type = "Double" -> ET_DTYPE_FLOAT64
      [] scalar_type = "Long" -> ET_DTYPE_INT64
      [] scalar_type = "Int" -> ET_DTYPE_INT32
      [] scalar_type = "Short" -> ET_DTYPE_INT16
      [] scalar_type = "Char" -> ET_DTYPE_UINT8
      [] scalar_type = "Byte" -> ET_DTYPE_UINT8
      [] scalar_type = "Bool" -> ET_DTYPE_BOOL
      [] OTHER -> ET_DTYPE_FLOAT32

from_scalar_type(scalar_type) ==
    CASE scalar_type = "Float" -> ET_DTYPE_FLOAT32
      [] scalar_type = "Double" -> ET_DTYPE_FLOAT64
      [] scalar_type = "Long" -> ET_DTYPE_INT64
      [] scalar_type = "Int" -> ET_DTYPE_INT32
      [] scalar_type = "Short" -> ET_DTYPE_INT16
      [] scalar_type = "Char" -> ET_DTYPE_INT8
      [] scalar_type = "Byte" -> ET_DTYPE_UINT8
      [] scalar_type = "Bool" -> ET_DTYPE_BOOL
      [] OTHER -> ET_DTYPE_FLOAT32

\* product of the dimensions, as the loops over sizes compute it (the
\* dimensions of this model stay far below the word size)
RECURSIVE Numel(_)
Numel(sizes) ==
    IF sizes = <<>> THEN 1 ELSE Head(sizes) * Numel(Tail(sizes))

\* ETStatus: create_status copies the two optional strings
NullStr == "(null)"
create_status(code, message, location) ==
    [code |-> code, message |-> message, location |-> location]

\* variant: the OK status names its origin
create_ok_status_located == create_status(ET_OK, NullStr, "create_ok_status")

create_ok_status == create_status(ET_OK, NullStr, NullStr)

NoStatus == [code |-> -1, message |-> NullStr, location |-> NullStr]

\* create_status returns nullptr when malloc(sizeof(ETStatus)) fails
NullStatus == [null |-> TRUE]

\* the backend query of a frame that has made none
NoBackendCall ==
    [build |-> {}, out_null |-> TRUE, max_count |-> 0, buffer |-> <<>>,
     out |-> <<>>, count |-> 0]

\* the accessor results a frame holds before any accessor was called
NotAccessed ==
    [dtype |-> -1, rank |-> -1, shape |-> [null |-> TRUE], data_size |-> -1,
     data |-> [null |-> TRUE]]

(***************************************************************************)
(* Values crossing the boundary.                                           *)
(***************************************************************************)
\* a null ETTensor* handle, and an array slot malloc left uninitialised
NullTensor == [null |-> TRUE]
Uninit == [uninit |-> TRUE]

\* an out-parameter the call has not written, and the values written to it
Unset == [written |-> FALSE]
Written(v) == [written |-> TRUE, val |-> v]
NullPtr == [null |-> TRUE]
ArrayPtr(arr) == [null |-> FALSE, arr |-> arr]

\* The ETTensor objects the caller threads own (each made by a successful
\* et_tensor_create): the tensor thread t passes at input position i.  Every
\* (t, i) has its own bytes, so a tensor identifies the call it came from.
InputDType(t, i) ==
    CASE i % 3 = 1 -> IF ThreadTag(t) = 1 THEN ET_DTYPE_UINT8 ELSE ET_DTYPE_INT8
      [] i % 3 = 2 -> ET_DTYPE_INT16
      [] OTHER -> ET_DTYPE_BOOL

InputShape(t, i) == IF i % 2 = 1 THEN <<2>> ELSE <<1, 1>>

InputTensor(t, i) ==
    LET n == Numel(InputShape(t, i)) * dtype_size(InputDType(t, i))
    IN  [dtype |-> InputDType(t, i),
         rank |-> Len(InputShape(t, i)),
         shape |-> InputShape(t, i),
         data |-> [k \in 1..n |-> 100 * ThreadTag(t) + 10 * i + k]]

\* the input arrays of up to max handles thread t passes: position i holds
\* its tensor i or null
InputArrays(t, max) ==
    UNION {{[i \in 1..n |-> IF i \in nulls THEN NullTensor ELSE InputTensor(t, i)] :
                nulls \in SUBSET (1..n)} : n \in 0..max}

(***************************************************************************)
(* State.                                                                  *)
(***************************************************************************)
VARIABLES
    module,     \* the ETModule objects
    mutex,      \* ETModule::mutex: the thread holding it, or NoThread
    engine,     \* the engine's side of each Module (program, output buffers)
    deletes,    \* how many times each ETModule object was deleted
    th          \* the call frame of each thread

vars == <<module, mutex, engine, deletes, th>>

\* a value-initialised ETModule (new (std::nothrow) ETModule())
NewETModule ==
    [state |-> "live",
     loaded |-> FALSE,
     input_count |-> 0,
     output_count |-> 0,
     model_buffer |-> <<>>,
     input_sizes_storage |-> <<>>,
     input_data_storage |-> <<>>]

NoETModule == [NewETModule EXCEPT !.state = "none"]

NewEngine == [program_loaded |-> FALSE, method_loaded |-> FALSE, outputs |-> <<>>]

IdleFrame ==
    [pc |-> "idle",
     op |-> "none",
     module |-> NullModule,
     module_loaded |-> FALSE,
     load_error |-> "none",
     forward_error |-> "none",
     data |-> [null |-> TRUE],
     data_size |-> 0,
     path |-> NullStr,
     out_null |-> FALSE,
     shape |-> [null |-> TRUE],
     rank |-> 0,
     dtype |-> 0,
     null_call |-> "none",
     mem |-> [data |-> <<>>, shape |-> <<>>],
     status_live |-> FALSE,
     accessed |-> NotAccessed,
     backend |-> NoBackendCall,
     thrown |-> FALSE,
     inputs |-> <<>>,
     inputs_null |-> FALSE,
     input_count |-> 0,
     outputs_null |-> FALSE,
     output_count_null |-> FALSE,
     i |-> 0,
     input_evalues |-> <<>>,
     result |-> <<>>,
     invoked |-> FALSE,
     out |-> Unset,
     outputs |-> Unset,
     output_count |-> Unset,
     tensors_live |-> 0,
     array_live |-> FALSE,
     views_live |-> 0,
     module_before |-> NoETModule,
     value |-> 0,
     status |-> NoStatus]

Init ==
    /\ module = [m \in Modules |-> NoETModule]
    /\ mutex = [m \in Modules |-> NoThread]
    /\ engine = [m \in Modules |-> NewEngine]
    /\ deletes = [m \in Modules |-> 0]
    /\ th = [t \in Threads |-> IdleFrame]

(***************************************************************************)
(* Frames.                                                                 *)
(***************************************************************************)
\* a thread starts a call: a fresh frame for operation op
StartFrame(op) == [IdleFrame EXCEPT !.op = op]

\* The call returns status st.  The locals go out of scope.  With keep, the
\* arguments, the out-parameters and the status stay visible in the frame
\* until the thread's next call; without it the caller releases them at
\* once (nothing else reads a finished frame).
ReturnFrame(f, st, keep) ==
    IF keep
    THEN [f EXCEPT !.pc = "idle", !.status = st, !.i = 0,
                   !.status_live = (st \notin {NoStatus, NullStatus}),
                   !.input_evalues = <<>>, !.result = <<>>]
    ELSE IdleFrame

\* variant: the constructor does not block while the mutex is held
lock_guard_ctor_enabled_nonblocking(mx, m) == TRUE

\* variant: one mutex shared by all ETModule objects
lock_guard_ctor_enabled_global(mx, m) == \A x \in DOMAIN mx : mx[x] = NoThread

\* std::lock_guard<std::mutex> constructor and destructor
lock_guard_ctor_enabled(mx, m) == mx[m] = NoThread

\* variant: the constructor returns without locking the mutex
lock_guard_ctor_noop(mx, m, t) == mx

lock_guard_ctor(mx, m, t) == [mx EXCEPT ![m] = t]

\* variant: the mutex stays locked when the guard goes out of scope
lock_guard_dtor_leak(mx, m, t) == mx

lock_guard_dtor(mx, m, t) == [mx EXCEPT ![m] = NoThread]

\* the ETModule objects a pointer can point at: every one that is allocated
\* and not deleted (loaded is FALSE only while its load runs)
LiveModules == {m \in Modules : module[m].state = "live"}

\* the handles a load has handed out
LoadedModules == {m \in LiveModules : module[m].loaded}

\* the ETModule the allocator hands out next
FreeSlots == {k \in 1..Len(ModuleOrder) : module[ModuleOrder[k]].state = "none"}

NextModule == ModuleOrder[CHOOSE k \in FreeSlots : \A j \in FreeSlots : k <= j]

\* no call is running on Module m (the caller's obligation before
\* et_module_free)
Quiescent(m) == \A t \in Threads : th[t].pc = "idle" \/ th[t].module # m

(***************************************************************************)
(* The engine's program loading (Module::load, Module::load_forward,       *)
(* Module::method_meta).                                                   *)
(***************************************************************************)
\* the model bytes a caller passes (a null pointer, a serialized program, a
\* program without method metadata, bytes that are no program) and the
\* files a path can name
NullData == [null |-> TRUE]
ValidProgram == [null |-> FALSE, bytes |-> <<80, 84, 69>>]
NoMetaProgram == [null |-> FALSE, bytes |-> <<80, 84>>]
CorruptProgram == [null |-> FALSE, bytes |-> <<0>>]
ModelBuffers == {ValidProgram, NoMetaProgram, CorruptProgram}
ModelPaths == {"model.pte", "nometa.pte", "corrupt.pte"}

FileContents(path) ==
    CASE path = "model.pte" -> ValidProgram
      [] path = "nometa.pte" -> NoMetaProgram
      [] OTHER -> CorruptProgram

\* the program a load frame hands to the engine
ProgramOf(f) == IF f.op = "load" THEN f.data ELSE FileContents(f.path)

\* what method_meta("forward") reports when it is available
MethodMeta == [num_inputs |-> 2, num_outputs |-> 2]

\* each engine step reports Ok, reports an Error or throws
EngineStepResults == {"Ok", "Error", "Throw"}

\* Module::load() parses the program: bytes that are no program never load
ProgramLoadResults(f) ==
    IF ProgramOf(f) = CorruptProgram THEN {"Error", "Throw"} ELSE EngineStepResults

MethodMetaOk(f) == ProgramOf(f) = ValidProgram

(***************************************************************************)
(* et_module_load / et_module_load_file                                    *)
(***************************************************************************)
LoadFunc(op) == IF op = "load" THEN "et_module_load" ELSE "et_module_load_file"

\* the argument lists of the two load functions
LoadArgs ==
    {[op |-> "load", data |-> d, data_size |-> n, path |-> NullStr, out_null |-> o] :
        d \in ModelBuffers, n \in {0, 1}, o \in BOOLEAN}
    \cup
    {[op |-> "load", data |-> NullData, data_size |-> n, path |-> NullStr, out_null |-> o] :
        n \in {0, 1}, o \in BOOLEAN}

LoadFileArgs ==
    {[op |-> "load_file", data |-> NullData, data_size |-> 0, path |-> p, out_null |-> o] :
        p \in ModelPaths \cup {NullStr}, o \in BOOLEAN}

\* data_size is the length of the caller's buffer unless it is passed as 0
DataSize(a) == IF a.data_size = 0 \/ a.data.null THEN a.data_size ELSE Len(a.data.bytes)

\* variant: the size of the buffer is not checked
invalid_model_data_nullonly(data, data_size) == data.null

\* !data || data_size == 0, and !path
invalid_model_data(data, data_size) == data.null \/ data_size = 0

invalid_path(path) == path = NullStr

\* argument checks and allocation of the ETModule
et_module_load_call(t, a, keep) ==
    LET f == [StartFrame(a.op) EXCEPT !.data = a.data, !.data_size = DataSize(a),
                                      !.path = a.path, !.out_null = a.out_null]
        func == LoadFunc(a.op)
    IN
    /\ th[t].pc = "idle"
    /\ UNCHANGED <<mutex, engine, deletes>>
    /\ IF a.out_null
       THEN /\ th' = [th EXCEPT ![t] = ReturnFrame(f,
                         create_status(ET_INVALID_ARGUMENT, "out pointer is null", func), keep)]
            /\ UNCHANGED module
       ELSE IF a.op = "load" /\ invalid_model_data(a.data, a.data_size)
       THEN /\ th' = [th EXCEPT ![t] = ReturnFrame(f,
                         create_status(ET_INVALID_ARGUMENT, "invalid model data", func), keep)]
            /\ UNCHANGED module
       ELSE IF a.op = "load_file" /\ invalid_path(a.path)
       THEN /\ th' = [th EXCEPT ![t] = ReturnFrame(f,
                         create_status(ET_INVALID_ARGUMENT, "path is null", func), keep)]
            /\ UNCHANGED module
       ELSE \/ \* new (std::nothrow) ETModule() returns null
               /\ th' = [th EXCEPT ![t] = ReturnFrame(f,
                         create_status(ET_OUT_OF_MEMORY, "failed to allocate module", func), keep)]
               /\ UNCHANGED module
            \/ /\ FreeSlots # {}
               /\ module' = [module EXCEPT ![NextModule] = NewETModule]
               /\ th' = [th EXCEPT ![t] = [f EXCEPT !.pc = "loading", !.module = NextModule]]

\* variant: the ETModule is not deleted
delete_module_leak(mods, m) == mods

\* delete module
delete_module(mods, m) ==
    [mods EXCEPT ![m] = [NoETModule EXCEPT !.state = "deleted"]]

count_delete(dels, m) == [dels EXCEPT ![m] = @ + 1]

\* the failure paths of the try block and the catch clauses: delete module
\* and return Model-Load-Failed without writing *out
load_failed(f, message, keep) ==
    ReturnFrame([f EXCEPT !.invoked = TRUE],
                create_status(ET_MODEL_LOAD_FAILED, message, LoadFunc(f.op)), keep)

\* the success path: arity from the metadata (1/1 without it), loaded = true,
\* *out = module
load_succeeded(f, m, keep) ==
    ReturnFrame([f EXCEPT !.invoked = TRUE, !.out = Written(m)], create_ok_status, keep)

\* variant: the arity is 1/1 whatever the metadata reports
loaded_module_fallback(mod, f) ==
    [mod EXCEPT !.model_buffer = IF f.op = "load" THEN f.data.bytes ELSE <<>>,
                !.input_count = 1,
                !.output_count = 1,
                !.loaded = TRUE]

loaded_module(mod, f) ==
    [mod EXCEPT !.model_buffer = IF f.op = "load" THEN f.data.bytes ELSE <<>>,
                !.input_count = IF MethodMetaOk(f) THEN MethodMeta.num_inputs ELSE 1,
                !.output_count = IF MethodMetaOk(f) THEN MethodMeta.num_outputs ELSE 1,
                !.loaded = TRUE]

\* variant: the result of load_forward is ignored
load_steps_ok_loadonly(load_error, forward_error) == load_error = "Ok"

\* both engine steps reported Error::Ok
load_steps_ok(load_error, forward_error) == load_error = "Ok" /\ forward_error = "Ok"

\* the try block: loader and program construction, load, load_forward,
\* method_meta, publication of the handle; load_forward runs only after a
\* successful load
et_module_load_body(t, keep) ==
    LET f == th[t]
        m == f.module
    IN
    /\ f.pc = "loading"
    /\ UNCHANGED mutex
    /\ \E load_error \in ProgramLoadResults(f), forward_error \in EngineStepResults \cup {"none"} :
          LET message ==
                  CASE load_error = "Throw" -> "backend initialization failed"
                    [] load_error = "Error" -> "failed to load ExecuTorch program"
                    [] forward_error = "Throw" -> "backend initialization failed"
                    [] OTHER -> "failed to load forward method"
              g == [f EXCEPT !.load_error = load_error, !.forward_error = forward_error]
          IN
          /\ forward_error = "none" <=> load_error # "Ok"
          /\ IF load_steps_ok(load_error, forward_error)
             THEN /\ engine' = [engine EXCEPT ![m] =
                         [@ EXCEPT !.program_loaded = (load_error = "Ok"),
                                   !.method_loaded = (forward_error = "Ok")]]
                  /\ module' = [module EXCEPT ![m] = loaded_module(@, f)]
                  /\ th' = [th EXCEPT ![t] = load_succeeded(g, m, keep)]
                  /\ UNCHANGED deletes
             ELSE /\ engine' = [engine EXCEPT ![m] = NewEngine]
                  /\ module' = delete_module(module, m)
                  /\ deletes' = count_delete(deletes, m)
                  /\ th' = [th EXCEPT ![t] = load_failed(g, message, keep)]

(***************************************************************************)
(* et_module_input_count / et_module_output_count / et_module_free         *)
(***************************************************************************)
\* variant: the loaded flag is not checked
module_not_loaded_nullonly(mods, m) == m = NullModule

\* !module || !module->loaded
module_not_loaded(mods, m) == m = NullModule \/ ~mods[m].loaded

et_module_input_count(m) ==
    IF module_not_loaded(module, m) THEN 0 ELSE module[m].input_count

et_module_output_count(m) ==
    IF module_not_loaded(module, m) THEN 0 ELSE module[m].output_count

et_module_count_call(t, keep) ==
    /\ th[t].pc = "idle"
    /\ \E m \in LiveModules \cup {NullModule}, op \in {"input_count", "output_count"} :
          th' = [th EXCEPT ![t] =
                   ReturnFrame([StartFrame(op) EXCEPT
                       !.module = m,
                       !.module_loaded = (m \in LoadedModules),
                       !.value = IF op = "input_count"
                                 THEN et_module_input_count(m)
                                 ELSE et_module_output_count(m)], NoStatus, keep)]
    /\ UNCHANGED <<module, mutex, engine, deletes>>

\* et_module_free on null or on a handle no call is using
et_module_free(t, keep) ==
    /\ th[t].pc = "idle"
    /\ \E m \in LoadedModules \cup {NullModule} :
          /\ m # NullModule => Quiescent(m)
          /\ th' = [th EXCEPT ![t] =
                      ReturnFrame([StartFrame("free") EXCEPT !.module = m], NoStatus, keep)]
          /\ IF m = NullModule
             THEN UNCHANGED <<module, engine, deletes>>
             ELSE /\ module' = delete_module(module, m)
                  /\ deletes' = count_delete(deletes, m)
                  /\ engine' = [engine EXCEPT ![m] = NewEngine]
    /\ UNCHANGED mutex

(***************************************************************************)
(* Marshalling: ETTensor -> EValue over Module-owned storage, and back.    *)
(***************************************************************************)
\* std::vector::resize to a larger size: new elements are empty vectors
Resized(storage, n) ==
    [k \in 1..n |-> IF k <= Len(storage) THEN storage[k] ELSE <<>>]

\* An int64_t dimension of 2^32, written m * 2^e as size_t values are, and
\* the ETTensor of that many bytes (its data given by length and fill
\* byte).  Every other dimension of the model fits SizesType (int32_t).
WideDim == [m |-> 1, e |-> 32]

WideTensor ==
    [dtype |-> ET_DTYPE_UINT8, rank |-> 1, shape |-> <<WideDim>>,
     data |-> [len |-> WideDim, fill |-> 7], wide |-> TRUE]

IsWide(tensor) == "wide" \in DOMAIN tensor

\* static_cast<executorch::aten::SizesType>(tensor->shape[i]): the low 32
\* bits of the dimension, as a signed value
SizesType(tensor, d) ==
    IF IsWide(tensor)
    THEN (IF d.e >= 32 THEN 0 ELSE -2147483647 - 1)
    ELSE d

\* variant: the view is built over a vector local to the conversion, gone
\* when it returns, and over the caller's tensor (slot 0: no Module storage)
tensor_to_evalue_local(tensor, mod, m, input_index) ==
    [mod |-> mod,
     evalue |-> [is_tensor |-> TRUE,
                 scalar_type |-> to_scalar_type(tensor.dtype),
                 dim |-> tensor.rank,
                 sizes |-> [m |-> m, slot |-> 0],
                 data |-> [m |-> m, slot |-> 0]]]

\* tensor_to_evalue(tensor, module, input_index): the new ETModule contents
\* and the EValue, a tensor view whose sizes and data pointers point into
\* slot input_index of the storage of Module m
tensor_to_evalue(tensor, mod, m, input_index) ==
    LET grow == input_index >= Len(mod.input_sizes_storage)
        sizes_storage == IF grow THEN Resized(mod.input_sizes_storage, input_index + 1)
                         ELSE mod.input_sizes_storage
        data_storage == IF grow THEN Resized(mod.input_data_storage, input_index + 1)
                        ELSE mod.input_data_storage
        sizes == [k \in 1..tensor.rank |-> SizesType(tensor, tensor.shape[k])]
        slot == input_index + 1
    IN  [mod |-> [mod EXCEPT
                    !.input_sizes_storage = [sizes_storage EXCEPT ![slot] = sizes],
                    !.input_data_storage = [data_storage EXCEPT ![slot] = tensor.data]],
         evalue |-> [is_tensor |-> TRUE,
                     scalar_type |-> to_scalar_type(tensor.dtype),
                     dim |-> tensor.rank,
                     sizes |-> [m |-> m, slot |-> slot],
                     data |-> [m |-> m, slot |-> slot]]]

\* what a read through a pointer into released storage yields
GarbageRead == <<-1>>

\* what the engine reads through a view's sizes and data pointers
ReadSizes(mods, ptr) ==
    IF ptr.slot \in DOMAIN mods[ptr.m].input_sizes_storage
    THEN mods[ptr.m].input_sizes_storage[ptr.slot]
    ELSE GarbageRead

ReadData(mods, ptr) ==
    IF ptr.slot \in DOMAIN mods[ptr.m].input_data_storage
    THEN mods[ptr.m].input_data_storage[ptr.slot]
    ELSE GarbageRead

\* Module::forward of the loaded program, which returns each input tensor
\* as an output tensor held in engine-owned memory
EngineForward(mods, evalues) ==
    [k \in 1..Len(evalues) |->
        [is_tensor |-> TRUE,
         scalar_type |-> evalues[k].scalar_type,
         sizes |-> ReadSizes(mods, evalues[k].sizes),
         data |-> ReadData(mods, evalues[k].data)]]

\* executorch::aten::ScalarType: the eight values of the shim's table and
\* two the table does not have
TableScalarTypes == {"Float", "Double", "Long", "Int", "Short", "Char", "Byte", "Bool"}
ScalarTypes == TableScalarTypes \cup {"Half", "ComplexFloat"}

\* the engine's size of one element of a scalar type, in bytes
ElementSize(scalar_type) ==
    CASE scalar_type \in {"Byte", "Char", "Bool"} -> 1
      [] scalar_type \in {"Short", "Half"} -> 2
      [] scalar_type \in {"Int", "Float"} -> 4
      [] scalar_type \in {"Long", "Double", "ComplexFloat"} -> 8

\* Module::forward of a program that converts each input tensor to scalar
\* type st: an output of the same sizes in engine-owned memory, of
\* numel * ElementSize(st) bytes
EngineCast(mods, evalues, st) ==
    [k \in 1..Len(evalues) |->
        LET sizes == ReadSizes(mods, evalues[k].sizes)
        IN  [is_tensor |-> TRUE,
             scalar_type |-> st,
             sizes |-> sizes,
             data |-> [j \in 1..(Numel(sizes) * ElementSize(st)) |-> 40 + j]]]

\* the EValue an element of the result vector refers to
ReadOutput(eng, ptr) ==
    IF ptr.slot <= Len(eng[ptr.m].outputs)
    THEN eng[ptr.m].outputs[ptr.slot]
    ELSE [is_tensor |-> TRUE, scalar_type |-> "Float",
          sizes |-> GarbageRead, data |-> GarbageRead]

\* what stands for the data of a tensor that has no buffer of its own but
\* points at the engine's output buffer
EngineBuffer == <<-3>>

\* variant: the output refers to the engine's buffer instead of copying it
CopyBytes_aliased(src, data_size) == EngineBuffer

\* memcpy(result->data.data(), src, data_size) into the zero-filled vector
CopyBytes(src, data_size) ==
    [k \in 1..data_size |-> IF k <= Len(src) THEN src[k] ELSE -1]

\* evalue_to_tensor, once the ETTensor is allocated
evalue_to_tensor(evalue) ==
    LET dtype == from_scalar_type(evalue.scalar_type)
        data_size == Numel(evalue.sizes) * dtype_size(dtype)
    IN  [dtype |-> dtype,
         rank |-> Len(evalue.sizes),
         shape |-> evalue.sizes,
         data |-> CopyBytes(evalue.data, data_size)]

(***************************************************************************)
(* et_module_forward                                                       *)
(***************************************************************************)
\* the argument lists the sequential client passes: every combination of
\* absent pointers, input arrays with null handles, and input_count
ForwardArgs(t) ==
    {[inputs |-> a, inputs_null |-> FALSE, input_count |-> Len(a),
      outputs_null |-> o, output_count_null |-> c] :
        a \in InputArrays(t, MaxInputs), o \in BOOLEAN, c \in BOOLEAN}
    \cup
    {[inputs |-> <<>>, inputs_null |-> TRUE, input_count |-> n,
      outputs_null |-> o, output_count_null |-> c] :
        n \in -1..MaxInputs, o \in BOOLEAN, c \in BOOLEAN}

\* the argument lists the concurrent callers pass: all pointers present
WorkerForwardArgs(t) ==
    {[inputs |-> a, inputs_null |-> FALSE, input_count |-> Len(a),
      outputs_null |-> FALSE, output_count_null |-> FALSE] :
        a \in InputArrays(t, MaxInputs)}
    \cup
    {[inputs |-> <<>>, inputs_null |-> FALSE, input_count |-> -1,
      outputs_null |-> FALSE, output_count_null |-> FALSE]}

\* The result vector of a call refers to output values in engine-owned
\* memory, which the engine reuses: once the call has returned nothing
\* refers to them and their contents are no longer defined.
release_outputs(eng, m) == [eng EXCEPT ![m].outputs = <<>>]

\* return from inside the locked region: the lock_guard releases the mutex
ReturnLocked(t, m, f, st, keep) ==
    /\ th' = [th EXCEPT ![t] = ReturnFrame(f, st, keep)]
    /\ mutex' = lock_guard_dtor(mutex, m, t)
    /\ engine' = release_outputs(engine, m)

\* variant: output_count is not checked
invalid_output_pointers_outputsonly(outputs_null, output_count_null) == outputs_null

\* !outputs || !output_count
invalid_output_pointers(outputs_null, output_count_null) ==
    outputs_null \/ output_count_null

\* entry: the checks made before the lock is taken (module_before is the
\* ETModule object as the call finds it, remembered while the call can
\* still reject its arguments, that is until all inputs are converted)
et_module_forward_call(t, m, a, keep) ==
    LET f == [StartFrame("forward") EXCEPT
                 !.module = m,
                 !.module_loaded = (m \in LoadedModules),
                 !.module_before = IF keep /\ m \in LoadedModules
                                   THEN module[m] ELSE NoETModule,
                 !.inputs = a.inputs,
                 !.inputs_null = a.inputs_null,
                 !.input_count = a.input_count,
                 !.outputs_null = a.outputs_null,
                 !.output_count_null = a.output_count_null]
    IN
    /\ th[t].pc = "idle"
    /\ th' = [th EXCEPT ![t] =
          IF module_not_loaded(module, m)
          THEN ReturnFrame(f, create_status(ET_INVALID_STATE,
                               "module not loaded", "et_module_forward"), keep)
          ELSE IF invalid_output_pointers(a.outputs_null, a.output_count_null)
          THEN ReturnFrame(f, create_status(ET_INVALID_ARGUMENT,
                               "invalid output pointers", "et_module_forward"), keep)
          ELSE IF a.input_count > 0 /\ a.inputs_null
          THEN ReturnFrame(f, create_status(ET_INVALID_ARGUMENT,
                               "inputs is null", "et_module_forward"), keep)
          ELSE [f EXCEPT !.pc = "lock"]]
    /\ UNCHANGED <<module, mutex, engine, deletes>>

\* variant: the storage of the previous call is kept
clear_input_storage_kept(mods, m) == mods

\* input_sizes_storage.clear(); input_data_storage.clear()
clear_input_storage(mods, m) ==
    [mods EXCEPT ![m] = [@ EXCEPT !.input_sizes_storage = <<>>,
                                  !.input_data_storage = <<>>]]

\* std::lock_guard lock(module->mutex); clear the storage; reserve
et_module_forward_lock(t, keep) ==
    LET f == th[t]
        m == f.module
    IN
    /\ f.pc = "lock"
    /\ lock_guard_ctor_enabled(mutex, m)
    /\ module' = clear_input_storage(module, m)
    /\ IF f.input_count < 0
       THEN \* input_evalues.reserve throws std::length_error
            ReturnLocked(t, m, f, create_status(ET_INFERENCE_FAILED,
                "inference failed with exception", "et_module_forward"), keep)
       ELSE \/ \* input_evalues.reserve allocates and throws std::bad_alloc
               /\ f.input_count > 0
               /\ ReturnLocked(t, m, f, create_status(ET_INFERENCE_FAILED,
                      "inference failed with exception", "et_module_forward"), keep)
            \/ /\ th' = [th EXCEPT ![t] =
                      [f EXCEPT !.pc = IF f.input_count > 0 THEN "convert" ELSE "engine",
                                !.module_before =
                                    IF f.input_count > 0 THEN @ ELSE NoETModule]]
               /\ mutex' = lock_guard_ctor(mutex, m, t)
               /\ UNCHANGED engine
    /\ UNCHANGED deletes

\* one iteration of the input loop (views_live counts the TensorImpl objects
\* made by new and not deleted)
et_module_forward_convert(t, keep) ==
    LET f == th[t]
        m == f.module
        tensor == f.inputs[f.i + 1]
        conv == tensor_to_evalue(tensor, module[m], m, f.i)
    IN
    /\ f.pc = "convert"
    /\ UNCHANGED deletes
    /\ IF tensor = NullTensor
       THEN /\ ReturnLocked(t, m, f, create_status(ET_INVALID_ARGUMENT,
                   "input tensor is null", "et_module_forward"), keep)
            /\ UNCHANGED module
       ELSE /\ module' = [module EXCEPT ![m] = conv.mod]
            /\ \/ \* new TensorImpl throws std::bad_alloc
                  ReturnLocked(t, m, f, create_status(ET_INFERENCE_FAILED,
                      "inference failed with exception", "et_module_forward"), keep)
               \/ /\ th' = [th EXCEPT ![t] =
                        [f EXCEPT !.i = IF f.i + 1 < f.input_count THEN f.i + 1 ELSE 0,
                                  !.views_live = @ + 1,
                                  !.module_before =
                                      IF f.i + 1 < f.input_count THEN @ ELSE NoETModule,
                                  !.pc = IF f.i + 1 < f.input_count THEN "convert" ELSE "engine",
                                  !.input_evalues = Append(@, conv.evalue)]]
                  /\ UNCHANGED <<mutex, engine>>

\* module->module->forward(input_evalues); *output_count; malloc of *outputs,
\* where out is what the loaded program computes from the views
forward_and_allocate(t, keep, out) ==
    LET f == th[t]
        m == f.module
        n == Len(out)
        g == [f EXCEPT !.invoked = TRUE]
    IN
    /\ f.pc = "engine"
    /\ UNCHANGED <<module, deletes>>
    /\ \/ \* forward throws
          ReturnLocked(t, m, g, create_status(ET_INFERENCE_FAILED,
              "inference failed with exception", "et_module_forward"), keep)
       \/ \* forward returns an error
          ReturnLocked(t, m, g, create_status(ET_INFERENCE_FAILED,
              "forward execution failed", "et_module_forward"), keep)
       \/ \* forward succeeds, malloc returns null
          /\ ReturnLocked(t, m,
                 [g EXCEPT !.output_count = Written(n), !.outputs = Written(NullPtr)],
                 create_status(ET_OUT_OF_MEMORY,
                     "failed to allocate outputs array", "et_module_forward"), keep)
       \/ \* forward succeeds, the array is allocated
          /\ engine' = [engine EXCEPT ![m].outputs = out]
          /\ th' = [th EXCEPT ![t] =
                [g EXCEPT !.pc = "outconv", !.i = 0,
                          !.result = [k \in 1..n |-> [m |-> m, slot |-> k]],
                          !.output_count = Written(n),
                          !.array_live = TRUE,
                          !.outputs = Written(ArrayPtr([k \in 1..n |-> Uninit]))]]
          /\ UNCHANGED mutex

\* the engine step with the program that returns its inputs
et_module_forward_engine(t, keep) ==
    forward_and_allocate(t, keep, EngineForward(module, th[t].input_evalues))

\* the engine step with a program that converts its inputs to a scalar type
et_module_forward_engine_cast(t, keep) ==
    \E st \in ScalarTypes :
        forward_and_allocate(t, keep, EngineCast(module, th[t].input_evalues, st))

\* one iteration of the output loop, or the successful return after it
et_module_forward_outconv(t, keep) ==
    LET f == th[t]
        m == f.module
        n == f.output_count.val
    IN
    /\ f.pc = "outconv"
    /\ UNCHANGED <<module, deletes>>
    /\ IF f.i >= n
       THEN ReturnLocked(t, m, f, create_ok_status, keep)
       ELSE LET evalue == ReadOutput(engine, f.result[f.i + 1])
            IN
            \/ \* evalue_to_tensor returns nullptr (the output is not a tensor,
               \* or new (std::nothrow) fails): the tensors made so far are
               \* deleted and the array is freed
               ReturnLocked(t, m,
                   [f EXCEPT !.outputs = Written(NullPtr), !.output_count = Written(0),
                             !.tensors_live = 0, !.array_live = FALSE],
                   create_status(ET_INFERENCE_FAILED,
                       "failed to convert output tensor", "et_module_forward"), keep)
            \/ \* a vector resize in evalue_to_tensor throws std::bad_alloc, after
               \* its new ETTensor succeeded: control goes to the catch clause
               ReturnLocked(t, m, [f EXCEPT !.tensors_live = @ + 1],
                   create_status(ET_INFERENCE_FAILED,
                   "inference failed with exception", "et_module_forward"), keep)
            \/ /\ th' = [th EXCEPT ![t] =
                     [f EXCEPT !.i = f.i + 1,
                               !.tensors_live = @ + 1,
                               !.outputs = Written(ArrayPtr(
                                   [f.outputs.val.arr EXCEPT ![f.i + 1] =
                                       evalue_to_tensor(evalue)]))]]
               /\ UNCHANGED <<mutex, engine>>

(***************************************************************************)
(* size_t arithmetic.  A size_t value is kept as m * 2^e with m odd (or as *)
(* 0), so that products are exact modulo 2^SizeBits.                       *)
(***************************************************************************)
SizeBits == 64

RECURSIVE Pow2(_)
Pow2(k) == IF k = 0 THEN 1 ELSE 2 * Pow2(k - 1)

\* m * 2^e reduced modulo 2^SizeBits
RECURSIVE SizeT(_, _)
SizeT(m, e) ==
    IF m = 0 \/ e >= SizeBits THEN [m |-> 0, e |-> 0]
    ELSE IF m % 2 = 0 THEN SizeT(m \div 2, e + 1)
    ELSE [m |-> IF SizeBits - e < 30 THEN m % Pow2(SizeBits - e) ELSE m, e |-> e]

\* static_cast<size_t>(n) for n >= 0, and the product of two size_t values
ToSize(n) == SizeT(n, 0)

SizeMul(a, b) == SizeT(a.m * b.m, a.e + b.e)

\* size_t element_count = 1; element_count *= static_cast<size_t>(shape[i])
RECURSIVE element_count(_)
element_count(dims) ==
    IF dims = <<>> THEN ToSize(1)
    ELSE SizeMul(ToSize(Head(dims)), element_count(Tail(dims)))

\* size_t expected_size = element_count * dtype_size(dtype)
expected_size(dims, dtype) == SizeMul(element_count(dims), ToSize(dtype_size(dtype)))

(***************************************************************************)
(* et_tensor_create, the accessors, et_tensor_free                         *)
(***************************************************************************)
\* what a read through the caller's data pointer yields: the present
\* contents of the caller's buffer
CallerBytes(f) == f.mem.data

\* a data member that is a pointer into the caller's buffer instead of
\* owned bytes (a byte is never negative)
CallerPointer == <<-2>>

\* variant: the tensor keeps the caller's data pointer
tensor_data_aliased(bytes) == CallerPointer

\* tensor->data.resize(data_size); memcpy(tensor->data.data(), data, data_size)
tensor_data(bytes) == bytes

\* variant: the last dimension is not copied
tensor_shape_truncated(dims, rank) == [k \in 1..(rank - 1) |-> dims[k]]

\* tensor->shape.assign(shape, shape + rank)
tensor_shape(dims, rank) == [k \in 1..rank |-> dims[k]]

\* the bytes of tensor->data, read with the caller's memory as in frame f
TensorData(tensor, f) ==
    IF tensor.data = CallerPointer THEN CallerBytes(f) ELSE tensor.data

\* variant: the size accessor reads through the handle without the null test
et_tensor_data_size_unchecked(tensor, f) ==
    IF tensor = NullTensor THEN -1 ELSE Len(TensorData(tensor, f))

et_tensor_dtype(tensor) == IF tensor = NullTensor THEN ET_DTYPE_FLOAT32 ELSE tensor.dtype

et_tensor_rank(tensor) == IF tensor = NullTensor THEN 0 ELSE tensor.rank

et_tensor_shape(tensor) ==
    IF tensor = NullTensor \/ tensor.shape = <<>>
    THEN NullPtr ELSE ArrayPtr(tensor.shape)

et_tensor_data_size(tensor, f) ==
    IF tensor = NullTensor THEN 0 ELSE Len(TensorData(tensor, f))

et_tensor_data(tensor, f) ==
    IF tensor = NullTensor \/ TensorData(tensor, f) = <<>>
    THEN NullPtr ELSE ArrayPtr(TensorData(tensor, f))

\* The arguments a caller passes to et_tensor_create.  Dimensions include
\* non-positive ones and ones whose product passes 2^64; data_size is 0, 1,
\* or the exact byte size when that is at most MaxBytes; data is null or a
\* buffer of data_size bytes.
TensorDims == {0, 1, 2}

\* shapes with a negative dimension, and shapes of 2^64 and 2^62 elements
SpecialShapes ==
    {<<-1>>, <<2, -1>>, <<4194304, 2097152, 2097152>>, <<2097152, 2097152, 1048576>>}

\* a 4-byte, a 1-byte dtype and a value outside ETDType
TensorDTypes == {ET_DTYPE_FLOAT32, ET_DTYPE_UINT8, ET_DTYPE_BOOL + 1}

ShapeArgs ==
    {[shape |-> [null |-> FALSE, dims |-> d], rank |-> Len(d)] :
        d \in UNION {[1..k -> TensorDims] : k \in 1..MaxRank} \cup SpecialShapes}
    \cup {[shape |-> [null |-> TRUE], rank |-> r] : r \in {0, 1}}
    \cup {[shape |-> [null |-> FALSE, dims |-> <<1>>], rank |-> r] : r \in {-1, 0}}

\* the product of positive dimensions, or cap + 1 when it is larger than cap
RECURSIVE ProductUpTo(_, _)
ProductUpTo(dims, cap) ==
    IF dims = <<>> THEN 1
    ELSE LET p == ProductUpTo(Tail(dims), cap)
         IN  IF p > cap \/ Head(dims) * p > cap THEN cap + 1 ELSE Head(dims) * p

\* product(shape) * elementSize(dtype) in unbounded arithmetic, or
\* MaxBytes + 1 when it is larger than MaxBytes
ExactBytes(dims, dtype) == ProductUpTo(dims \o <<dtype_size(dtype)>>, MaxBytes)

AllPositive(dims) == \A k \in 1..Len(dims) : dims[k] > 0

DataBytes(n) == [k \in 1..n |-> 40 + k]

\* the sizes passed with a shape and dtype: 0, 1 and the exact size
SizeCandidates(sa, dtype) ==
    {0, 1} \cup
    (IF ~sa.shape.null /\ sa.rank > 0 /\ AllPositive(sa.shape.dims)
     THEN {ExactBytes(sa.shape.dims, dtype)} \cap 0..MaxBytes ELSE {})

TensorArgs ==
    UNION {{[shape |-> sa.shape, rank |-> sa.rank, dtype |-> dt, data_size |-> n,
             data |-> IF dn THEN NullData ELSE [null |-> FALSE, bytes |-> DataBytes(n)],
             out_null |-> o] :
                n \in SizeCandidates(sa, dt), dn \in BOOLEAN, o \in BOOLEAN} :
           sa \in ShapeArgs, dt \in TensorDTypes}

\* et_tensor_create.  status_mallocs are the outcomes of the malloc in
\* create_status that the caller's environment allows.
et_tensor_create(t, a, keep, status_mallocs) ==
    LET f == [StartFrame("tensor_create") EXCEPT
                 !.data = a.data, !.data_size = a.data_size, !.shape = a.shape,
                 !.rank = a.rank, !.dtype = a.dtype, !.out_null = a.out_null,
                 !.mem = [data |-> IF a.data.null THEN GarbageRead ELSE a.data.bytes,
                          shape |-> IF a.shape.null THEN GarbageRead ELSE a.shape.dims]]
        func == "et_tensor_create"
        tensor == [dtype |-> a.dtype,
                   rank |-> a.rank,
                   shape |-> tensor_shape(a.shape.dims, a.rank),
                   data |-> IF ~a.data.null /\ a.data_size > 0
                            THEN tensor_data(a.data.bytes) ELSE <<>>]
        Return(g, st) ==
            \E ok \in status_mallocs :
                th' = [th EXCEPT ![t] = ReturnFrame(g, IF ok THEN st ELSE NullStatus, keep)]
    IN
    /\ th[t].pc = "idle" /\ th[t].op = "none"
    /\ UNCHANGED <<module, mutex, engine, deletes>>
    /\ IF a.out_null
       THEN Return(f, create_status(ET_INVALID_ARGUMENT, "out pointer is null", func))
       ELSE IF a.shape.null \/ a.rank <= 0
       THEN Return(f, create_status(ET_INVALID_ARGUMENT, "invalid shape or rank", func))
       ELSE IF ~AllPositive(a.shape.dims)
       THEN Return(f, create_status(ET_INVALID_ARGUMENT,
                          "shape dimensions must be positive", func))
       ELSE IF ToSize(a.data_size) # expected_size(a.shape.dims, a.dtype)
       THEN Return(f, create_status(ET_INVALID_ARGUMENT, "data size mismatch", func))
       ELSE \/ \* new (std::nothrow) ETTensor() returns null
               Return(f, create_status(ET_OUT_OF_MEMORY, "failed to allocate tensor", func))
            \/ \* tensor->shape.assign or tensor->data.resize throws
               \* std::bad_alloc, which nothing catches: the call does not
               \* return, the ETTensor stays allocated
               th' = [th EXCEPT ![t] =
                   ReturnFrame([f EXCEPT !.thrown = TRUE, !.tensors_live = 1],
                               NoStatus, keep)]
            \/ Return([f EXCEPT !.out = Written(tensor), !.tensors_live = 1],
                      create_ok_status)

\* after et_tensor_create returned, the caller overwrites its data or shape
\* buffer, or releases it (its memory then holds anything)
CallerChangesBuffer(t) ==
    LET f == th[t]
    IN
    /\ f.pc = "idle" /\ f.op = "tensor_create"
    /\ f.out.written
    /\ ~f.data.null
    /\ \/ \E bytes \in {[k \in 1..f.data_size |-> 0], GarbageRead} \ {f.mem.data} :
             th' = [th EXCEPT ![t] = [f EXCEPT !.mem.data = bytes]]
       \/ \E dims \in {[k \in 1..f.rank |-> 7], GarbageRead} \ {f.mem.shape} :
             th' = [th EXCEPT ![t] = [f EXCEPT !.mem.shape = dims]]
    /\ UNCHANGED <<module, mutex, engine, deletes>>

\* the caller's frame once it holds neither a tensor nor a status
Released(f) ==
    IF f.tensors_live = 0 /\ ~f.status_live THEN IdleFrame ELSE f

\* et_status_free(status), et_tensor_free(tensor): nothing on a null handle
et_status_free(f, null) == IF null THEN f ELSE [f EXCEPT !.status_live = FALSE]

et_tensor_free(f, null) ==
    IF null THEN f ELSE [f EXCEPT !.tensors_live = 0, !.out = Unset]

\* the five accessors called on a null ETTensor*; the results stay in the
\* caller's frame
NullAccessorCall(t) ==
    LET f == th[t]
    IN
    /\ f.pc = "idle" /\ f.op \in {"none", "tensor_create"} /\ ~f.thrown
    /\ f.null_call # "accessors"
    /\ th' = [th EXCEPT ![t] =
              [f EXCEPT !.null_call = "accessors",
                        !.accessed = [dtype |-> et_tensor_dtype(NullTensor),
                                      rank |-> et_tensor_rank(NullTensor),
                                      shape |-> et_tensor_shape(NullTensor),
                                      data_size |-> et_tensor_data_size(NullTensor, f),
                                      data |-> et_tensor_data(NullTensor, f)]]]
    /\ UNCHANGED <<module, mutex, engine, deletes>>

\* a call of one of the release functions, on null or on what the caller
\* holds from its et_tensor_create
FreeCall(t) ==
    LET f == th[t]
    IN
    /\ f.pc = "idle" /\ f.op \in {"none", "tensor_create"} /\ ~f.thrown
    /\ UNCHANGED <<module, mutex, engine, deletes>>
    /\ \/ \E func \in {"et_tensor_free", "et_status_free", "et_module_free",
                         "et_tensor_array_free"} :
             \* on null, et_module_free and et_tensor_array_free return at
             \* their first test
             LET g == CASE func = "et_status_free" -> et_status_free(f, TRUE)
                        [] func = "et_tensor_free" -> et_tensor_free(f, TRUE)
                        [] OTHER -> f
             IN  /\ f.null_call # func
                 /\ th' = [th EXCEPT ![t] = [g EXCEPT !.null_call = func]]
       \/ /\ f.status_live
          /\ th' = [th EXCEPT ![t] = Released(et_status_free(f, FALSE))]
       \/ /\ f.out.written /\ f.tensors_live = 1
          /\ th' = [th EXCEPT ![t] = Released(et_tensor_free(f, FALSE))]

(***************************************************************************)
(* Backend queries.  A build is the set of backends whose ET_BUILD_ macro  *)
(* is 1.                                                                   *)
(***************************************************************************)
BackendOrder ==
    <<ET_BACKEND_XNNPACK, ET_BACKEND_COREML, ET_BACKEND_MPS, ET_BACKEND_VULKAN,
      ET_BACKEND_QNN>>

et_backend_available(build, backend) == IF backend \in build THEN 1 ELSE 0

\* variant: the slot is written whatever max_count is
has_room_always(count, max_count) == TRUE

\* if (count < max_count)
has_room(count, max_count) == count < max_count

\* the #if blocks from the k-th on:
\* if (count < max_count) out[count++] = ET_BACKEND_...
RECURSIVE backend_list_from(_, _, _, _, _)
backend_list_from(k, build, out, count, max_count) ==
    IF k > Len(BackendOrder) THEN [out |-> out, count |-> count]
    ELSE IF BackendOrder[k] \in build /\ has_room(count, max_count)
    THEN backend_list_from(k + 1, build,
             [out EXCEPT ![count + 1] = BackendOrder[k]], count + 1, max_count)
    ELSE backend_list_from(k + 1, build, out, count, max_count)

\* et_backend_list(out, max_count) in a build, out pointing at a buffer of
\* max_count + 1 slots (or null)
et_backend_list(t) ==
    /\ th[t].pc = "idle" /\ th[t].op = "none"
    /\ UNCHANGED <<module, mutex, engine, deletes>>
    /\ \E build \in SUBSET {BackendOrder[k] : k \in 1..Len(BackendOrder)},
          max_count \in -1..MaxCount, out_null \in BOOLEAN :
          LET buffer == IF out_null THEN <<>>
                        ELSE [k \in 1..(MaxCount + 1) |-> 90 + k]
              r == IF out_null \/ max_count <= 0
                   THEN [out |-> buffer, count |-> 0]
                   ELSE backend_list_from(1, build, buffer, 0, max_count)
          IN  th' = [th EXCEPT ![t] =
                  [StartFrame("backend_list") EXCEPT
                      !.backend = [build |-> build, out_null |-> out_null,
                                   max_count |-> max_count, buffer |-> buffer,
                                   out |-> r.out, count |-> r.count]]]

(***************************************************************************)
(* Specifications.                                                         *)
(***************************************************************************)
\* Concurrent callers: both threads load Modules from a valid program, run
\* forward on any handle with all pointers present, and free handles.
WorkerLoad(t) ==
    et_module_load_call(t, [op |-> "load", data |-> ValidProgram, data_size |-> 1,
                            path |-> NullStr, out_null |-> FALSE], FALSE)

WorkerLoadBody(t) == et_module_load_body(t, FALSE)

WorkerFree(t) == et_module_free(t, FALSE)

WorkerCall(t) ==
    \E m \in LoadedModules, a \in WorkerForwardArgs(t) :
        et_module_forward_call(t, m, a, FALSE)

WorkerLock(t) == et_module_forward_lock(t, FALSE)

WorkerConvert(t) == et_module_forward_convert(t, FALSE)

WorkerEngine(t) == et_module_forward_engine(t, FALSE)

WorkerOutconv(t) == et_module_forward_outconv(t, FALSE)

Next ==
    \E t \in Threads :
        \/ WorkerLoad(t)
        \/ WorkerLoadBody(t)
        \/ WorkerFree(t)
        \/ WorkerCall(t)
        \/ WorkerLock(t)
        \/ WorkerConvert(t)
        \/ WorkerEngine(t)
        \/ WorkerOutconv(t)

Spec == Init /\ [][Next]_vars

\* Sequential client: thread t1 calls forward with every argument list on
\* every ETModule object and on null, and its finished frames are kept;
\* thread t2 loads Modules meanwhile, so that ETModule objects whose load
\* has not finished exist.
Client == "t1"
Loader == "t2"

ValidLoadArgs ==
    {[op |-> "load", data |-> ValidProgram, data_size |-> 1,
      path |-> NullStr, out_null |-> FALSE]}

ClientLoadValid == \E a \in ValidLoadArgs : et_module_load_call(Client, a, TRUE)

ClientLoadBody == et_module_load_body(Client, TRUE)

ClientCount == et_module_count_call(Client, TRUE)

ClientFree == et_module_free(Client, TRUE)

ClientCall ==
    \E m \in LiveModules \cup {NullModule}, a \in ForwardArgs(Client) :
        et_module_forward_call(Client, m, a, TRUE)

ClientLock == et_module_forward_lock(Client, TRUE)

ClientConvert == et_module_forward_convert(Client, TRUE)

ClientEngine == et_module_forward_engine(Client, TRUE)

ClientOutconv == et_module_forward_outconv(Client, TRUE)

LoaderLoad == WorkerLoad(Loader)

LoaderLoadBody == WorkerLoadBody(Loader)

ApiNext ==
    \/ ClientLoadValid
    \/ ClientLoadBody
    \/ ClientFree
    \/ ClientCall
    \/ ClientLock
    \/ ClientConvert
    \/ ClientEngine
    \/ ClientOutconv
    \/ LoaderLoad
    \/ LoaderLoadBody

ApiSpec == Init /\ [][ApiNext]_vars

\* Module lifecycle: thread t1 calls the two load functions with every
\* argument list, the arity queries and free, and forward on null and on
\* ETModule objects that are not loaded; thread t2 loads Modules meanwhile.
ClientLoad == \E a \in LoadArgs : et_module_load_call(Client, a, TRUE)

ClientLoadFile == \E a \in LoadFileArgs : et_module_load_call(Client, a, TRUE)

ClientCallUnloaded ==
    \E m \in (LiveModules \ LoadedModules) \cup {NullModule}, a \in ForwardArgs(Client) :
        et_module_forward_call(Client, m, a, TRUE)

LifecycleNext ==
    \/ ClientLoad
    \/ ClientLoadFile
    \/ ClientLoadBody
    \/ ClientCount
    \/ ClientFree
    \/ ClientCallUnloaded
    \/ LoaderLoad
    \/ LoaderLoadBody

LifecycleSpec == Init /\ [][LifecycleNext]_vars

\* Tensor construction: thread t1 calls et_tensor_create with every
\* argument list, changes its buffers afterwards, and releases what it got.
ClientTensorCreate ==
    /\ th[Client].op = "none"
    /\ \E a \in TensorArgs : et_tensor_create(Client, a, TRUE, {TRUE})

TensorNext ==
    \/ ClientTensorCreate
    \/ CallerChangesBuffer(Client)
    \/ FreeCall(Client)
    \/ NullAccessorCall(Client)

TensorSpec == Init /\ [][TensorNext]_vars

\* The same calls where malloc may fail in create_status.
ClientTensorCreateLowMemory ==
    /\ th[Client].op = "none"
    /\ \E a \in TensorArgs : et_tensor_create(Client, a, TRUE, BOOLEAN)

StatusNext ==
    \/ ClientTensorCreateLowMemory
    \/ FreeCall(Client)

StatusSpec == Init /\ [][StatusNext]_vars

\* Backend queries: thread t1 calls et_backend_list in every build.
BackendNext == et_backend_list(Client)

BackendSpec == Init /\ [][BackendNext]_vars

\* The identity scenario: thread t1 loads Modules and calls forward with one
\* tensor of each dtype and each of the shapes [1], [3] and [1, 3], and
\* with the tensor of 2^32 bytes.
IdentityTensors ==
    {[dtype |-> dt, rank |-> Len(sh), shape |-> sh,
      data |-> [k \in 1..(Numel(sh) * dtype_size(dt)) |-> k]] :
        dt \in ET_DTYPE_FLOAT32..ET_DTYPE_BOOL,
        sh \in {<<1>>, <<3>>, <<1, 3>>}}
    \cup {WideTensor}

ClientCallIdentity ==
    \E m \in LoadedModules, x \in IdentityTensors :
        et_module_forward_call(Client, m,
            [inputs |-> <<x>>, inputs_null |-> FALSE, input_count |-> 1,
             outputs_null |-> FALSE, output_count_null |-> FALSE], TRUE)

IdentityNext ==
    \/ ClientLoadValid
    \/ ClientLoadBody
    \/ ClientCallIdentity
    \/ ClientLock
    \/ ClientConvert
    \/ ClientEngine
    \/ ClientOutconv

IdentitySpec == Init /\ [][IdentityNext]_vars

\* Every boundary function: thread t1 alone makes the load, arity and free
\* calls of the specification above, the forward calls with at most one
\* input, and et_tensor_create with the rank-1 float argument lists (they
\* take each of its return paths).
ClientTensorCreateRank1 ==
    /\ th[Client].op = "none"
    /\ \E a \in {x \in TensorArgs : x.rank <= 1 /\ x.dtype = ET_DTYPE_FLOAT32} :
          et_tensor_create(Client, a, TRUE, {TRUE})

ClientCallShort ==
    \E m \in LiveModules \cup {NullModule},
       a \in {x \in ForwardArgs(Client) : x.input_count <= 1} :
        et_module_forward_call(Client, m, a, TRUE)

\* The client calls forward with one tensor of any dtype on a Module whose
\* program converts it to some scalar type.
CastTensors ==
    {[dtype |-> dt, rank |-> Len(sh), shape |-> sh,
      data |-> [k \in 1..(Numel(sh) * dtype_size(dt)) |-> k]] :
        dt \in ET_DTYPE_FLOAT32..ET_DTYPE_BOOL, sh \in {<<2>>, <<1, 3>>}}

ClientCallCast ==
    \E m \in LoadedModules, x \in CastTensors :
        et_module_forward_call(Client, m,
            [inputs |-> <<x>>, inputs_null |-> FALSE, input_count |-> 1,
             outputs_null |-> FALSE, output_count_null |-> FALSE], TRUE)

ClientEngineCast == et_module_forward_engine_cast(Client, TRUE)

CastNext ==
    \/ ClientLoadValid
    \/ ClientLoadBody
    \/ ClientCallCast
    \/ ClientLock
    \/ ClientConvert
    \/ ClientEngineCast
    \/ ClientOutconv

CastSpec == Init /\ [][CastNext]_vars

BoundaryNext ==
    \/ ClientLoad
    \/ ClientLoadFile
    \/ ClientLoadBody
    \/ ClientCount
    \/ ClientFree
    \/ ClientCallShort
    \/ ClientLock
    \/ ClientConvert
    \/ ClientEngine
    \/ ClientOutconv
    \/ ClientTensorCreateRank1

BoundarySpec == Init /\ [][BoundaryNext]_vars

\* Concurrent callers under fair scheduling: a call that can take a step
\* eventually takes it, a caller that finds the mutex free again and again
\* eventually locks it, and every engine invocation returns.
InCallStep(t) ==
    \/ WorkerLoadBody(t)
    \/ WorkerConvert(t)
    \/ WorkerEngine(t)
    \/ WorkerOutconv(t)

\* The client holds the outputs of its forward calls while a second thread
\* calls forward on the same Modules and frees them.
HoldCall(t, keep) ==
    \E m \in LoadedModules :
        et_module_forward_call(t, m,
            [inputs |-> <<InputTensor(t, 1)>>, inputs_null |-> FALSE, input_count |-> 1,
             outputs_null |-> FALSE, output_count_null |-> FALSE], keep)

ClientCallHold == HoldCall(Client, TRUE)

LoaderCallHold == HoldCall(Loader, FALSE)

HoldNext ==
    \/ ClientLoadValid
    \/ ClientLoadBody
    \/ ClientCallHold
    \/ ClientLock
    \/ ClientConvert
    \/ ClientEngine
    \/ ClientOutconv
    \/ LoaderCallHold
    \/ WorkerLock(Loader)
    \/ WorkerConvert(Loader)
    \/ WorkerEngine(Loader)
    \/ WorkerOutconv(Loader)
    \/ WorkerFree(Loader)

HoldSpec == Init /\ [][HoldNext]_vars

FairSpec ==
    /\ Spec
    /\ \A t \in Threads : WF_vars(InCallStep(t)) /\ SF_vars(WorkerLock(t))

(***************************************************************************)
(* Properties.                                                             *)
(***************************************************************************)
\* the region of et_module_forward between the lock_guard and the return:
\* scratch repopulation, engine invocation, output conversion
LockedRegion == {"convert", "engine", "outconv"}

InRegion(t, m) == th[t].op = "forward" /\ th[t].pc \in LockedRegion /\ th[t].module = m

Waiting(t, m) == th[t].op = "forward" /\ th[t].pc = "lock" /\ th[t].module = m

OwnScratch(t) ==
    LET f == th[t]
        mod == module[f.module]
        filled == IF f.pc = "convert" THEN f.i ELSE f.input_count
    IN  /\ Len(f.input_evalues) = filled
        /\ Len(mod.input_data_storage) = filled
        /\ Len(mod.input_sizes_storage) = filled
        /\ \A k \in 1..filled :
              /\ f.input_evalues[k].data = [m |-> f.module, slot |-> k]
              /\ mod.input_data_storage[k] = f.inputs[k].data
              /\ mod.input_sizes_storage[k] = f.inputs[k].shape

OwnOutputs(t) ==
    LET f == th[t]
    IN  /\ f.output_count = Written(f.input_count)
        /\ Len(f.outputs.val.arr) = f.input_count
        /\ \A k \in 1..f.i : f.outputs.val.arr[k] = f.inputs[k]

LockHeldOnlyInside ==
    \A m \in Modules : mutex[m] # NoThread => InRegion(mutex[m], m)

ForwardStepOn(t, m) ==
    /\ th'[t] # th[t]
    /\ \/ th[t].op = "forward" /\ th[t].pc # "idle" /\ th[t].module = m
       \/ th[t].pc = "idle" /\ th'[t].op = "forward" /\ th'[t].module = m

C4_NoSharedState ==
    [][\A t \in Threads : \A a, b \in Modules :
          (ForwardStepOn(t, a) /\ a # b) =>
              /\ module'[b] = module[b]
              /\ mutex'[b] = mutex[b]
              /\ engine'[b] = engine[b]
              /\ deletes'[b] = deletes[b]]_vars

C4_NoWaitOnOther ==
    \A t \in Threads : \A m \in Modules :
        (Waiting(t, m) /\ mutex[m] = NoThread) => ENABLED WorkerLock(t)

C4_Independent == []C4_NoWaitOnOther /\ C4_NoSharedState

\* a caller at the free lock of one Module while the other thread is inside
\* the locked region of the other Module
C4_Witness ==
    /\ Waiting("t1", "A") /\ mutex["A"] = NoThread
    /\ InRegion("t2", "B") /\ mutex["B"] = "t2"

\* the frame of the sequential client's latest call
ClientFrame == th[Client]

LoadOps == {"load", "load_file"}

EngineStepFailed(r) == r \in {"Error", "Throw"}

\* C5: an ETModule is marked loaded only after the engine's program load and
\* its load_forward both succeeded; a handle written to *out names a loaded
\* Module; and on a Module that is not loaded (or null) the arity queries
\* return 0 and forward returns Invalid-State at once, without the engine.
C5_LoadedOnlyAfterBothSteps ==
    /\ \A m \in Modules :
          module[m].loaded =>
              /\ module[m].state = "live"
              /\ engine[m].program_loaded
              /\ engine[m].method_loaded
    /\ (ClientFrame.op \in LoadOps /\ ClientFrame.out.written) =>
          /\ ClientFrame.pc = "idle"
          /\ ClientFrame.status.code = ET_OK
          /\ ClientFrame.load_error = "Ok" /\ ClientFrame.forward_error = "Ok"
          /\ ClientFrame.out.val = ClientFrame.module
          /\ module[ClientFrame.module].loaded
    /\ (ClientFrame.op \in {"input_count", "output_count"} /\ ~ClientFrame.module_loaded) =>
          ClientFrame.value = 0
    /\ (ClientFrame.op = "forward" /\ ~ClientFrame.module_loaded) =>
          /\ ClientFrame.pc = "idle"
          /\ ClientFrame.status.code = ET_INVALID_STATE
          /\ ~ClientFrame.invoked

\* forward was refused on an ETModule whose load is still running, while
\* another Module is loaded
C5_Witness ==
    /\ ClientFrame.op = "forward" /\ ClientFrame.module \in LiveModules
    /\ ~module[ClientFrame.module].loaded
    /\ ClientFrame.status.code = ET_INVALID_STATE
    /\ LoadedModules # {}

\* C6: when the engine's program load or its load_forward fails, the load
\* returns Model-Load-Failed, the ETModule allocated by the call has been
\* deleted exactly once, and *out is not written.
C6_LoadFailureDeletesOnce ==
    /\ \A m \in Modules : deletes[m] = IF module[m].state = "deleted" THEN 1 ELSE 0
    /\ (/\ ClientFrame.op \in LoadOps
        /\ ClientFrame.pc = "idle"
        /\ \/ EngineStepFailed(ClientFrame.load_error)
           \/ EngineStepFailed(ClientFrame.forward_error)) =>
          /\ ClientFrame.status.code = ET_MODEL_LOAD_FAILED
          /\ ClientFrame.out = Unset
          /\ module[ClientFrame.module].state = "deleted"
          /\ deletes[ClientFrame.module] = 1

\* a load from a file whose program loads but whose forward method does not
C6_Witness ==
    /\ ClientFrame.op = "load_file" /\ ClientFrame.pc = "idle"
    /\ ClientFrame.load_error = "Ok" /\ ClientFrame.forward_error = "Error"
    /\ ClientFrame.status.code = ET_MODEL_LOAD_FAILED

\* C7: a load from memory with null data or size 0, and a load from a null
\* path, return Invalid-Argument before any engine call, allocate no
\* ETModule and do not write *out.
InvalidLoadArgs(f) ==
    \/ f.op = "load" /\ (f.data.null \/ f.data_size = 0)
    \/ f.op = "load_file" /\ f.path = NullStr

C7_Rejected ==
    InvalidLoadArgs(ClientFrame) =>
        /\ ClientFrame.pc = "idle"
        /\ ClientFrame.status.code = ET_INVALID_ARGUMENT
        /\ ~ClientFrame.invoked
        /\ ClientFrame.load_error = "none" /\ ClientFrame.forward_error = "none"
        /\ ClientFrame.module = NullModule
        /\ ClientFrame.out = Unset

C7_NothingAllocated ==
    [][(/\ th'[Client] # th[Client]
        /\ th[Client].pc = "idle"
        /\ InvalidLoadArgs(th'[Client])) =>
           UNCHANGED <<module, mutex, engine, deletes>>]_vars

C7_InvalidLoadArguments == []C7_Rejected /\ C7_NothingAllocated

\* a load from a non-null buffer passed with size 0
C7_Witness ==
    /\ ClientFrame.op = "load" /\ ~ClientFrame.data.null /\ ClientFrame.data_size = 0
    /\ ~ClientFrame.out_null
    /\ ClientFrame.status.code = ET_INVALID_ARGUMENT

\* C8: forward on a null or not-loaded Module returns Invalid-State in the
\* step of the call itself, whatever the other arguments: the mutex is not
\* taken, the engine is not invoked, and the scratch storage is not touched.
C8_Refused ==
    (ClientFrame.op = "forward" /\ ~ClientFrame.module_loaded) =>
        /\ ClientFrame.pc = "idle"
        /\ ClientFrame.status.code = ET_INVALID_STATE
        /\ ~ClientFrame.invoked
        /\ ClientFrame.outputs = Unset /\ ClientFrame.output_count = Unset

C8_NothingTouched ==
    [][(/\ th'[Client] # th[Client]
        /\ th[Client].pc = "idle"
        /\ th'[Client].op = "forward"
        /\ ~th'[Client].module_loaded) =>
           UNCHANGED <<module, mutex, engine, deletes>>]_vars

C8_InvalidState == []C8_Refused /\ C8_NothingTouched

\* forward with valid inputs and pointers on an ETModule that is not loaded
C8_Witness ==
    /\ ClientFrame.op = "forward" /\ ClientFrame.module \in LiveModules
    /\ ~module[ClientFrame.module].loaded
    /\ Len(ClientFrame.inputs) = MaxInputs
    /\ \A k \in 1..MaxInputs : ClientFrame.inputs[k] # NullTensor
    /\ ~ClientFrame.outputs_null /\ ~ClientFrame.output_count_null
    /\ ClientFrame.status.code = ET_INVALID_STATE

\* the argument errors of forward: an absent out-parameter, an absent input
\* array with input_count > 0, a null handle at some position
PointerArgsInvalid(f) ==
    \/ f.outputs_null \/ f.output_count_null
    \/ f.input_count > 0 /\ f.inputs_null

NullHandleAt(f, k) == k \in 1..Len(f.inputs) /\ f.inputs[k] = NullTensor

ForwardArgsInvalid(f) ==
    PointerArgsInvalid(f) \/ \E k \in 1..MaxInputs : NullHandleAt(f, k)

C10_NoPartialOutParams ==
    (ClientFrame.pc = "idle" /\ ClientFrame.op # "none"
        /\ ClientFrame.status.code # ET_OK) =>
        /\ ClientFrame.out = Unset
        /\ ClientFrame.outputs \in {Unset, Written(NullPtr)}
        /\ ClientFrame.output_count \in {Unset, Written(0)}

\* the output loop of a forward call failed: the engine had succeeded and
\* the outputs array was allocated, and the call returned Inference-Failed
OutputConversionFailed(f) ==
    /\ f.op = "forward" /\ f.pc = "idle"
    /\ f.invoked /\ f.output_count.written
    /\ f.status.code = ET_INFERENCE_FAILED

\* C11: when converting the k-th engine output fails (evalue_to_tensor
\* returns nullptr, or an allocation in it fails), the k tensors already
\* made in the call are deleted, the outputs array is freed, *outputs is
\* null and *output_count is 0, and the status is Inference-Failed: no
\* tensor allocated in the call stays live.
C11_ConversionFailureRollsBack ==
    OutputConversionFailed(ClientFrame) =>
        /\ ClientFrame.tensors_live = 0
        /\ ~ClientFrame.array_live
        /\ ClientFrame.outputs = Written(NullPtr)
        /\ ClientFrame.output_count = Written(0)

\* a forward call that ended with an engine error result or in a catch clause
EngineFailureReported(f) ==
    /\ f.op = "forward" /\ f.pc = "idle"
    /\ f.status.message \in {"forward execution failed", "inference failed with exception"}

\* C12: an engine error result and any exception raised during forward are
\* returned as Inference-Failed with no outputs exposed (*outputs unset or
\* null, *output_count unset or 0), and an exception raised during a load
\* is returned as Model-Load-Failed.
C12_FailuresBecomeStatuses ==
    /\ EngineFailureReported(ClientFrame) =>
          /\ ClientFrame.status.code = ET_INFERENCE_FAILED
          /\ ClientFrame.outputs \in {Unset, Written(NullPtr)}
          /\ ClientFrame.output_count \in {Unset, Written(0)}
    /\ (/\ ClientFrame.op \in LoadOps /\ ClientFrame.pc = "idle"
        /\ "Throw" \in {ClientFrame.load_error, ClientFrame.forward_error}) =>
          ClientFrame.status.code = ET_MODEL_LOAD_FAILED


(***************************************************************************)
(* Tensor construction and the accessors.                                  *)
(***************************************************************************)

\* the client's et_tensor_create returned OK and its tensor is still held
TensorCreated(f) ==
    /\ f.pc = "idle" /\ f.op = "tensor_create"
    /\ f.status = create_ok_status
    /\ f.out.written

\* C13: every tensor a successful et_tensor_create yields has
\* et_tensor_data_size(t) equal to product(shape) * elementSize(dtype), also
\* when data was null with a non-zero data_size and when dtype is outside
\* ETDType.  (Violated: with data null the copy at 279-282 is skipped and
\* the tensor's data stays empty.)
C13_DataSizeMatchesShape ==
    LET f == th[Client]
    IN  TensorCreated(f) =>
            et_tensor_data_size(f.out.val, f) = ExactBytes(f.shape.dims, f.dtype)

\* the arguments of f are valid: rank >= 1 with a shape of positive
\* dimensions, a dtype of ETDType, and data of product * elementSize bytes
ValidTensorArgs(f) ==
    /\ ~f.out_null /\ ~f.shape.null /\ f.rank >= 1
    /\ AllPositive(f.shape.dims)
    /\ f.dtype \in ET_DTYPE_FLOAT32..ET_DTYPE_BOOL
    /\ ~f.data.null
    /\ f.data_size = ExactBytes(f.shape.dims, f.dtype)
    /\ Len(f.data.bytes) = f.data_size

\* the values the accessors return for the tensor of frame f
Accessors(f) ==
    [rank |-> et_tensor_rank(f.out.val), shape |-> et_tensor_shape(f.out.val),
     dtype |-> et_tensor_dtype(f.out.val),
     data_size |-> et_tensor_data_size(f.out.val, f),
     data |-> et_tensor_data(f.out.val, f)]

\* what the arguments of f describe
Supplied(f) ==
    [rank |-> Len(f.shape.dims), shape |-> ArrayPtr(f.shape.dims),
     dtype |-> f.dtype, data_size |-> Len(f.data.bytes),
     data |-> IF f.data.bytes = <<>> THEN NullPtr ELSE ArrayPtr(f.data.bytes)]

InvalidTensorArgs(f) ==
    \/ f.shape.null
    \/ f.rank < 1
    \/ ~AllPositive(f.shape.dims)
    \/ f.data_size # ExactBytes(f.shape.dims, f.dtype)

\* C15: et_tensor_create returns Invalid-Argument, writes nothing to *out and
\* leaves nothing allocated whenever rank < 1, shape is null, a dimension is
\* <= 0 or data_size differs from product(shape) * elementSize(dtype).
\* (Violated: the product is computed in size_t and wraps.)
C15_InvalidTensorArguments ==
    LET f == th[Client]
    IN  (f.pc = "idle" /\ f.op = "tensor_create" /\ InvalidTensorArgs(f))
        => /\ f.status.code = ET_INVALID_ARGUMENT
           /\ ~f.out.written
           /\ f.tensors_live = 0

\* the client holds a tensor from its et_tensor_create
TensorHeld(f) ==
    f.pc = "idle" /\ f.op = "tensor_create" /\ f.out.written /\ f.tensors_live = 1

\* C16: a tensor never aliases caller memory: when the caller overwrites or
\* releases its data or shape buffer after et_tensor_create returned, every
\* accessor of the tensor returns what it returned before.
C16_NoAliasing ==
    [][(TensorHeld(th[Client]) /\ TensorHeld(th'[Client])
            /\ th'[Client].mem # th[Client].mem)
        => Accessors(th'[Client]) = Accessors(th[Client])]_vars

\* a tensor with data is held and both caller buffers have been released
C16_Witness ==
    LET f == th[Client]
    IN  /\ TensorHeld(f) /\ f.data_size > 1
        /\ f.mem.data = GarbageRead /\ f.mem.shape = GarbageRead
        /\ et_tensor_data(f.out.val, f) = ArrayPtr(f.data.bytes)

(***************************************************************************)
(* Status objects.                                                         *)
(***************************************************************************)

\* the frame holds a status that a boundary function returned
StatusReturned(f) == f.pc = "idle" /\ f.status # NoStatus /\ f.status # NullStatus

C18_AlwaysAStatus ==
    \A t \in Threads :
        (th[t].pc = "idle" /\ th[t].op = "tensor_create")
            => th[t].status # NullStatus /\ ~th[t].thrown

(***************************************************************************)
(* Null handles.                                                           *)
(***************************************************************************)

\* the step is a call on a null handle
NullCallStep ==
    /\ th'[Client].null_call # th[Client].null_call
    /\ th'[Client].null_call # "none"

\* what the caller holds and sees, apart from the record of its null calls
Holdings(f) == [f EXCEPT !.null_call = "none", !.accessed = NotAccessed]

\* C19: et_tensor_free, et_status_free, et_module_free and
\* et_tensor_array_free on a null handle return and change nothing, and the
\* accessors on a null tensor return dtype 0, rank 0, a null shape, data
\* size 0 and null data.
C19_NullHandlesSafe ==
    [][NullCallStep =>
        /\ UNCHANGED <<module, mutex, engine, deletes>>
        /\ \A t \in Threads : Holdings(th'[t]) = Holdings(th[t])
        /\ th'[Client].null_call = "accessors" =>
               th'[Client].accessed =
                   [dtype |-> 0, rank |-> 0, shape |-> NullPtr, data_size |-> 0,
                    data |-> NullPtr]]_vars

\* the accessors were called on null while the caller holds a tensor and
\* its status
C19_Witness ==
    LET f == th[Client]
    IN  /\ f.null_call = "accessors" /\ f.accessed.data_size = 0
        /\ TensorHeld(f) /\ f.status_live

(***************************************************************************)
(* Arity queries.                                                          *)
(***************************************************************************)

\* the arity the load in frame f caches: the metadata's counts, or 1/1 when
\* the metadata query failed
ArityAtLoad(f) ==
    IF MethodMetaOk(f)
    THEN [inputs |-> MethodMeta.num_inputs, outputs |-> MethodMeta.num_outputs]
    ELSE [inputs |-> 1, outputs |-> 1]

\* what the two queries return for Module m
Arity(m) == [inputs |-> et_module_input_count(m), outputs |-> et_module_output_count(m)]

\* C20: et_module_input_count and et_module_output_count return 0 for a null
\* or not-loaded Module; for a loaded Module they return the arity cached
\* by its load (the metadata's counts, or 1/1 when the metadata query
\* failed), and no later call, forward included, changes that value.
C20_ArityCached ==
    [][/\ \A m \in Modules :
            /\ (m \notin LoadedModules /\ m \in LoadedModules') =>
                   \E t \in Threads :
                       /\ th[t].pc = "loading" /\ th[t].module = m
                       /\ Arity(m)' = ArityAtLoad(th[t])
            /\ (m \in LoadedModules /\ m \in LoadedModules') => Arity(m)' = Arity(m)
            /\ m \notin LoadedModules => Arity(m) = [inputs |-> 0, outputs |-> 0]
       /\ Arity(NullModule) = [inputs |-> 0, outputs |-> 0]
       /\ (th'[Client] # th[Client] /\ th'[Client].op \in {"input_count", "output_count"}) =>
              th'[Client].value =
                  IF th'[Client].op = "input_count"
                  THEN Arity(th'[Client].module).inputs
                  ELSE Arity(th'[Client].module).outputs]_vars

\* a query on a Module loaded without metadata, after a forward call on it
\* filled its scratch storage: the 1/1 fallback is still returned
C20_Witness ==
    LET f == th[Client]
    IN  /\ f.pc = "idle" /\ f.op = "input_count"
        /\ f.module \in LoadedModules
        /\ module[f.module].input_data_storage # <<>>
        /\ f.value = 1

(***************************************************************************)
(* Backend queries.                                                        *)
(***************************************************************************)

\* the compiled-in backends of a build, in enumeration order
CompiledIn(build) ==
    LET Test(b) == b \in build IN SelectSeq(BackendOrder, Test)

\* C21: et_backend_list(buffer, max) returns min(max, number of compiled-in
\* backends), writes exactly that many slots in enumeration order and leaves
\* the later slots untouched; it returns 0 and writes nothing when buffer is
\* null or max <= 0; et_backend_available is true of every identifier
\* written.
C21_BackendList ==
    LET f == th[Client]
        b == f.backend
        n == Len(CompiledIn(b.build))
        k == IF b.out_null \/ b.max_count <= 0 THEN 0
             ELSE IF b.max_count < n THEN b.max_count ELSE n
    IN  (f.pc = "idle" /\ f.op = "backend_list") =>
            /\ b.count = k
            /\ Len(b.out) = Len(b.buffer)
            /\ \A i \in 1..Len(b.out) :
                   IF i <= k
                   THEN /\ b.out[i] = CompiledIn(b.build)[i]
                        /\ et_backend_available(b.build, b.out[i]) = 1
                   ELSE b.out[i] = b.buffer[i]

\* the scenario of the specification: three backends compiled in, max = 1
C21_Witness ==
    LET f == th[Client]
    IN  /\ f.pc = "idle" /\ f.op = "backend_list"
        /\ Cardinality(f.backend.build) = 3 /\ f.backend.max_count = 1
        /\ f.backend.count = 1 /\ f.backend.out[2] = f.backend.buffer[2]

(***************************************************************************)
(* Forward with the identity program.                                      *)
(***************************************************************************)

\* the dimensions of two shapes are the same numbers
SameShape(shape, tensor) ==
    /\ Len(shape) = Len(tensor.shape)
    /\ \A k \in 1..Len(shape) :
           IF IsWide(tensor) THEN ToSize(shape[k]) = tensor.shape[k]
           ELSE shape[k] = tensor.shape[k]

\* output tensor o has the dtype, rank, shape and bytes of input tensor x
SameTensor(o, x) ==
    /\ o.dtype = x.dtype
    /\ o.rank = x.rank
    /\ SameShape(o.shape, x)
    /\ o.data = x.data

\* the client's forward call with one valid tensor on a loaded Module
\* returned
IdentityCallReturned(f) ==
    /\ f.pc = "idle" /\ f.op = "forward"
    /\ f.module_loaded /\ ~f.inputs_null /\ f.input_count = 1
    /\ f.inputs[1] # NullTensor
    /\ ~f.outputs_null /\ ~f.output_count_null

\* C22: with the identity program, a forward call with one valid tensor
\* that returns OK yields exactly one output tensor with the dtype, rank,
\* shape and bytes of the input, for every dtype and every valid shape; no
\* such call is refused as invalid.  (Violated: dimensions are narrowed to
\* 32 bits on the way to the engine.)
C22_IdentityForward ==
    LET f == th[Client]
    IN  IdentityCallReturned(f) =>
            /\ f.status.code \in {ET_OK, ET_INFERENCE_FAILED, ET_OUT_OF_MEMORY}
            /\ f.status.code = ET_OK =>
                   /\ f.output_count = Written(1)
                   /\ Len(f.outputs.val.arr) = 1
                   /\ SameTensor(f.outputs.val.arr[1], f.inputs[1])

(***************************************************************************)
(* The memory behind the views handed to the engine.                       *)
(***************************************************************************)
\* the view's dimension array and data lie in slots of the storage of
\* Module m, which is allocated
ViewInModule(v, m) ==
    /\ module[m].state = "live"
    /\ v.sizes.m = m /\ v.sizes.slot \in DOMAIN module[m].input_sizes_storage
    /\ v.data.m = m /\ v.data.slot \in DOMAIN module[m].input_data_storage

\* thread t is in the engine phase of a forward call
InEnginePhase(t) == th[t].op = "forward" /\ th[t].pc = "engine"

C24_StorageRepopulated ==
    \A t \in Threads :
        InEnginePhase(t) =>
            LET f == th[t]
                mod == module[f.module]
            IN  /\ Len(mod.input_sizes_storage) = f.input_count
                /\ Len(mod.input_data_storage) = f.input_count
                /\ \A k \in 1..f.input_count :
                      /\ mod.input_sizes_storage[k] = f.inputs[k].shape
                      /\ mod.input_data_storage[k] = f.inputs[k].data

\* the client is about to invoke the engine with one input
C24_Witness ==
    /\ InEnginePhase(Client)
    /\ ClientFrame.input_count = 1
    /\ Len(module[ClientFrame.module].input_data_storage) = 1
    /\ module[ClientFrame.module].input_data_storage[1] = ClientFrame.inputs[1].data

(***************************************************************************)
(* The dtype table.                                                        *)
(***************************************************************************)
\* the element sizes the interface documents, by dtype tag
DocumentedSizes == <<4, 8, 8, 4, 2, 1, 1, 1>>

\* the outputs the client's call has converted so far, with the engine
\* values they were converted from
ConvertedOutputs(f) ==
    {[tensor |-> f.outputs.val.arr[k], evalue |-> engine[f.module].outputs[k]] :
        k \in 1..f.i}

\* C25: for each of the eight dtypes, mapping it to the engine's scalar type
\* and back gives the same dtype, and its element size is the documented
\* 4/8/8/4/2/1/1/1, which is also the engine's element size of the mapped
\* scalar type.  In a forward call every view carries the scalar type of
\* its input's dtype, and every converted output carries the dtype of the
\* engine's scalar type: a scalar type of the table comes back as its own
\* dtype, and only one outside the table is tagged Float32 without being
\* Float.
C25_DTypeRoundTrip ==
    /\ \A d \in ET_DTYPE_FLOAT32..ET_DTYPE_BOOL :
          /\ from_scalar_type(to_scalar_type(d)) = d
          /\ dtype_size(d) = DocumentedSizes[d + 1]
          /\ ElementSize(to_scalar_type(d)) = dtype_size(d)
    /\ \A k \in 1..Len(ClientFrame.input_evalues) :
          /\ ClientFrame.input_evalues[k].scalar_type
                 = to_scalar_type(ClientFrame.inputs[k].dtype)
          /\ from_scalar_type(ClientFrame.input_evalues[k].scalar_type)
                 = ClientFrame.inputs[k].dtype
    /\ ClientFrame.pc = "outconv" =>
          \A o \in ConvertedOutputs(ClientFrame) :
              /\ o.evalue.scalar_type \in TableScalarTypes =>
                     to_scalar_type(o.tensor.dtype) = o.evalue.scalar_type
              /\ o.evalue.scalar_type \notin TableScalarTypes =>
                     o.tensor.dtype = ET_DTYPE_FLOAT32

\* an Int8 input was converted to a view, the program returned a Char
\* tensor, and the output made from it is tagged Int8
C25_Witness ==
    /\ ClientFrame.pc = "outconv"
    /\ ClientFrame.inputs[1].dtype = ET_DTYPE_INT8
    /\ \E o \in ConvertedOutputs(ClientFrame) :
          o.evalue.scalar_type = "Char" /\ o.tensor.dtype = ET_DTYPE_INT8

(***************************************************************************)
(* What a rejected forward call leaves behind.                             *)
(***************************************************************************)
\* the client's forward call on a loaded Module has returned code
ForwardReturnedCode(code) ==
    /\ ClientFrame.op = "forward"
    /\ ClientFrame.pc = "idle"
    /\ ClientFrame.module_loaded
    /\ ClientFrame.status.code = code

\* C26: when a forward call on a loaded Module has returned Invalid-Argument
\* the Module is exactly as it was when the call was made: its scratch
\* storage was neither cleared nor refilled with the inputs before the null
\* one, and its mutex is free.
C26_RejectedCallLeavesModule ==
    ForwardReturnedCode(ET_INVALID_ARGUMENT) =>
        /\ module[ClientFrame.module] = ClientFrame.module_before
        /\ mutex[ClientFrame.module] = NoThread

\* C27: when a forward call has returned, whatever its status, none of the
\* tensor view objects it allocated for its inputs is still allocated.
C27_ViewsReleased ==
    (ClientFrame.op = "forward" /\ ClientFrame.pc = "idle") =>
        ClientFrame.views_live = 0

(***************************************************************************)
(* The bytes copied out of an engine output.                               *)
(***************************************************************************)
\* the engine's byte length of an output tensor
EngineBytes(evalue) == Numel(evalue.sizes) * ElementSize(evalue.scalar_type)

\* C28: for every output the call has converted, of whatever engine scalar
\* type, the number of bytes copied out of the engine's buffer (the length
\* of the output's data) is at most the engine tensor's byte length,
\* element count times the engine's element size, and no copied byte comes
\* from beyond the engine's buffer.
C28_CopyWithinEngineBuffer ==
    ClientFrame.pc = "outconv" =>
        \A o \in ConvertedOutputs(ClientFrame) :
            /\ Len(o.tensor.data) <= EngineBytes(o.evalue)
            /\ \A k \in 1..Len(o.tensor.data) : o.tensor.data[k] = o.evalue.data[k]

(***************************************************************************)
(* The size check of et_tensor_create against unbounded arithmetic.        *)
(***************************************************************************)
\* C29: et_tensor_create returns OK only if data_size equals the product of
\* the dimensions times the element size computed without wrap-around: a
\* shape whose element count or byte size wraps modulo 2^64 is not accepted
\* because the wrapped value matches data_size.
C29_SizeCheckExact ==
    LET f == th[Client]
    IN  (f.pc = "idle" /\ f.op = "tensor_create" /\ f.status = create_ok_status)
        => /\ ~f.shape.null
           /\ f.data_size = ExactBytes(f.shape.dims, f.dtype)

(***************************************************************************)
(* Outputs are independent of the Module.                                  *)
(***************************************************************************)
\* the client holds the outputs of a forward call that returned OK
HoldsOutputs(f) ==
    /\ f.op = "forward" /\ f.pc = "idle"
    /\ f.status = create_ok_status
    /\ f.outputs.written /\ ~f.outputs.val.null

\* what reading the data of held output k yields now
OutputData(f, k) ==
    LET data == f.outputs.val.arr[k].data
    IN  IF data # EngineBuffer THEN data
        ELSE IF k \in DOMAIN engine[f.module].outputs
        THEN engine[f.module].outputs[k].data
        ELSE GarbageRead

OutputsRead(f) ==
    [k \in DOMAIN f.outputs.val.arr |->
        [dtype |-> f.outputs.val.arr[k].dtype,
         shape |-> f.outputs.val.arr[k].shape,
         data |-> OutputData(f, k)]]

\* C30: the output tensors of a successful forward call own their data
\* (none refers to the engine's buffers or the Module's storage), and while
\* the client holds them every step of another thread, a forward call on
\* the same Module or et_module_free of it, leaves their dtype, shape and
\* data as they were.
C30_OutputsIndependent ==
    [][HoldsOutputs(th[Client]) =>
          /\ \A k \in DOMAIN th[Client].outputs.val.arr :
                th[Client].outputs.val.arr[k].data # EngineBuffer
          /\ th'[Client] = th[Client] =>
                OutputsRead(th[Client])' = OutputsRead(th[Client])]_vars

\* the client holds an output while the other thread's forward call on the
\* same Module has its own outputs in the engine's buffers
C30_Witness ==
    /\ HoldsOutputs(ClientFrame)
    /\ Len(ClientFrame.outputs.val.arr) = 1
    /\ th[Loader].op = "forward" /\ th[Loader].pc = "outconv"
    /\ th[Loader].module = ClientFrame.module
    /\ engine[ClientFrame.module].outputs # <<>>
    /\ engine[ClientFrame.module].outputs[1].data # ClientFrame.outputs.val.arr[1].data

=============================================================================
